---------------------------- MODULE Spec2Model ----------------------------
(***************************************************************************)
(* The octotiger package recipe (packages/octotiger/package.py): its       *)
(* versions, variants, dependency edges and conflict rules, the resolution *)
(* of a request against them, and cmake_args, which turns a resolved spec  *)
(* into the list of CMake arguments.                                       *)
(*                                                                         *)
(* A request is a version, a set of variant overrides, a compiler, a       *)
(* target and the run_tests setting.  Resolve binds the variants, merges   *)
(* the active dependency edges and evaluates the conflict rules; Emit      *)
(* calls cmake_args on the resolved spec; Reemit calls it a second time on *)
(* the same resolved spec, possibly for another target / run_tests.        *)
(*                                                                         *)
(* Variant values are the strings the recipe declares; a boolean variant   *)
(* holds "True" or "False".                                                *)
(***************************************************************************)
EXTENDS Naturals, Sequences, FiniteSets, TLC

VARIABLES
    pc,           \* "request", "resolved", "failed", "emitted", "reemitted"
    version,      \* the requested (and picked) octotiger version
    overrides,    \* variant name -> requested value (partial)
    compiler,     \* the compiler of the spec (%gcc@12, %clang, ...)
    target,       \* spec.target
    run_tests,    \* self.run_tests
    variants,     \* resolved variant mapping (only the active variants)
    children,     \* target package -> merged constraint and picked version
    errors,       \* the error kinds resolution reports
    violations,   \* the messages of the violated conflict rules
    outcome,      \* "none", "ok", or the message of the exception raised
    args,         \* the list cmake_args returned
    prevOutcome,  \* outcome of the previous cmake_args call, if any
    prevArgs      \* list returned by the previous cmake_args call

vars == <<pc, version, overrides, compiler, target, run_tests, variants,
          children, errors, violations, outcome, args, prevOutcome, prevArgs>>

\* How many settings of a request (overrides of the recipe's own variants,
\* compiler, target, run_tests) may differ from their defaults.  The GPU
\* architecture (cuda_arch, amdgpu_target) may always be given.
MaxChoices == 2

-----------------------------------------------------------------------------
(* Versions                                                                *)

Versions == {"0.6.0", "0.7.0", "0.8.0", "0.9.0", "0.10.0", "master", "develop"}

PreferredVersion == "master"

\* Position of a version in the version order: the numbered releases in
\* ascending order, then the branches (master below develop).
VersionRank(v) ==
    CASE v = "0.6.0"   -> 1
      [] v = "0.7.0"   -> 2
      [] v = "0.8.0"   -> 3
      [] v = "0.9.0"   -> 4
      [] v = "0.10.0"  -> 5
      [] v = "master"  -> 6
      [] v = "develop" -> 7

\* spec.satisfies("@lo:hi"); "" is an open end.
InRange(v, lo, hi) ==
    /\ (lo = "" \/ VersionRank(lo) <= VersionRank(v))
    /\ (hi = "" \/ VersionRank(v) <= VersionRank(hi))

-----------------------------------------------------------------------------
(* Variants                                                                *)

BoolValues == {"True", "False"}

\* The variants the recipe declares itself.
OwnVariants ==
    {"sycl", "cuda", "rocm", "kokkos", "griddim", "theta_minimum",
     "kokkos_hpx_kernels", "monopole_host_tasks", "multipole_host_tasks",
     "hydro_host_tasks", "simd_library", "simd_extension",
     "fast_fp_contract", "boost_multiprecision", "cxx20"}

\* cuda_arch and amdgpu_target come with CudaPackage and ROCmPackage.
InheritedVariants == {"cuda_arch", "amdgpu_target"}

VariantNames == OwnVariants \cup InheritedVariants

\* The variants whose activation condition reads no other variant.
BaseVariants ==
    VariantNames \ {"kokkos_hpx_kernels", "simd_library", "cuda_arch", "amdgpu_target"}

VariantDefault(name) ==
    CASE name \in {"sycl", "cuda", "rocm", "kokkos", "kokkos_hpx_kernels",
                   "fast_fp_contract", "boost_multiprecision", "cxx20"} -> "False"
      [] name = "griddim" -> "8"
      [] name = "theta_minimum" -> "0.34"
      [] name \in {"monopole_host_tasks", "multipole_host_tasks",
                   "hydro_host_tasks"} -> "1"
      [] name = "simd_library" -> "KOKKOS"
      [] name = "simd_extension" -> "DISCOVER"
      [] name \in InheritedVariants -> "none"

\* values=... of a variant declaration.  A declaration without values= and
\* with a non-boolean default accepts any value.
HasDeclaredValues(name) == name \notin {"griddim", "hydro_host_tasks"} \cup InheritedVariants

\* monopole_host_tasks given the value list of multipole_host_tasks.
DeclaredValues_Copied(name) ==
    CASE name = "theta_minimum" -> {"0.5", "0.34", "0.26", "0.16"}
      [] name = "monopole_host_tasks" -> {"1", "4", "16", "64"}
      [] name = "multipole_host_tasks" -> {"1", "4", "16", "64"}
      [] name = "simd_library" -> {"KOKKOS", "STD"}
      [] name = "simd_extension" -> {"DISCOVER", "SCALAR", "AVX", "AVX512", "NEON", "SVE"}
      [] OTHER -> BoolValues

DeclaredValues(name) ==
    CASE name = "theta_minimum" -> {"0.5", "0.34", "0.26", "0.16"}
      [] name = "monopole_host_tasks" -> {"1", "4", "16"}
      [] name = "multipole_host_tasks" -> {"1", "4", "16", "64"}
      [] name = "simd_library" -> {"KOKKOS", "STD"}
      [] name = "simd_extension" -> {"DISCOVER", "SCALAR", "AVX", "AVX512", "NEON", "SVE"}
      [] OTHER -> BoolValues

VariantAccepts(name, value) ==
    HasDeclaredValues(name) => value \in DeclaredValues(name)

\* when=... of a variant declaration, read against the version and the
\* variants bound so far (vs).  A name holds a value only when it is bound:
\* a concrete spec without the variant satisfies neither +name nor ~name.
Bound(vs, name, value) == name \in DOMAIN vs /\ vs[name] = value

\* The rocm variant declared one release too early.
RocmActive_Early(ver) == InRange(ver, "0.8.0", "")

\* when="@0.9.0:" of the rocm variant.
RocmActive(ver) == InRange(ver, "0.9.0", "")

\* cuda_arch and amdgpu_target exist only with their toggle (when="+cuda",
\* when="+rocm" in CudaPackage and ROCmPackage).
VariantActive(name, ver, vs) ==
    CASE name = "sycl" -> InRange(ver, "0.10.0", "")
      [] name = "cuda" -> InRange(ver, "0.7.0", "")
      [] name = "rocm" -> RocmActive(ver)
      [] name \in {"kokkos", "simd_extension", "fast_fp_contract"} ->
            InRange(ver, "0.9.0", "")
      [] name = "kokkos_hpx_kernels" ->
            InRange(ver, "0.9.0", "") /\ Bound(vs, "kokkos", "True")
      [] name \in {"monopole_host_tasks", "multipole_host_tasks",
                   "hydro_host_tasks"} -> InRange(ver, "0.10.0", "")
      [] name = "simd_library" ->
            InRange(ver, "0.10.0", "") /\ Bound(vs, "kokkos", "True")
      [] name = "cuda_arch" -> Bound(vs, "cuda", "True")
      [] name = "amdgpu_target" -> Bound(vs, "rocm", "True")
      [] OTHER -> TRUE


-----------------------------------------------------------------------------
(* Dependency edges                                                        *)

\* Versions of the dependency packages, as numbers that keep their order
\* (3.6.01 is 30601); a branch version sorts above every release.
Master == 999999

NoUpperEnd == 1000000

\* The versions each dependency package offers.
KnownVersions(pkg) ==
    CASE pkg = "hpx"        -> {10401, 10600, 10701, 10800, 10901}
      [] pkg = "kokkos"     -> {30600, 30601, 30700, 40100, 40200}
      [] pkg = "hpx-kokkos" -> {200, 300, 400, Master}
      [] pkg = "cppuddle"   -> {100, 201, 203}
      [] pkg = "boost"      -> {16100, 17400, 18200}
      [] OTHER              -> {1}

Compilers == {"gcc@10", "gcc@11", "gcc@12", "clang", "arm"}

IsGcc(c) == c \in {"gcc@10", "gcc@11", "gcc@12"}

\* One depends_on(...) declaration: the edge exists when cond holds.
\* req is the set of <<variant, value>> pairs the edge asks of the target.
Edge(cond, pkg, lo, hi, req) ==
    IF cond THEN {[pkg |-> pkg, lo |-> lo, hi |-> hi, req |-> req]} ELSE {}

KokkosBase == {<<"serial", "True">>, <<"aggressive_vectorization", "True">>}

MiscEdges(ver, vs, c) ==
    Edge(TRUE, "cmake", 0, NoUpperEnd, {})
    \cup Edge(TRUE, "vc", 0, NoUpperEnd, {})
    \cup Edge(InRange(ver, "0.8.0", "0.8.0"), "boost", 16100, NoUpperEnd, {<<"cxxstd", "14">>})
    \cup Edge(InRange(ver, "0.9.0", ""), "boost", 17400, NoUpperEnd, {<<"cxxstd", "17">>})
    \cup Edge(TRUE, "hdf5", 0, NoUpperEnd, {})
    \cup Edge(TRUE, "silo", 0, NoUpperEnd, {})
    \cup Edge(Bound(vs, "cuda", "True"), "cuda", 0, NoUpperEnd, {})
    \cup Edge(Bound(vs, "sycl", "True"), "dpcpp", 0, NoUpperEnd, {})
    \cup Edge(Bound(vs, "rocm", "True"), "hip", 0, NoUpperEnd, {})

HpxEdges(ver, vs, c) ==
    Edge(InRange(ver, "", "0.8.0"), "hpx", 0, 10401, {<<"cxxstd", "14">>})
    \cup Edge(InRange(ver, "0.9.0", "0.9.0"), "hpx", 10600, 10799, {<<"cxxstd", "17">>})
    \cup Edge(InRange(ver, "0.10.0", ""), "hpx", 10800, NoUpperEnd, {<<"cxxstd", "17">>})
    \cup Edge(Bound(vs, "cuda", "True"), "hpx", 0, NoUpperEnd,
              {<<"cuda", "True">>, <<"async_cuda", "True">>})
    \cup Edge(Bound(vs, "rocm", "True"), "hpx", 0, NoUpperEnd, {<<"rocm", "True">>})
    \cup Edge(Bound(vs, "cuda", "False") /\ Bound(vs, "rocm", "False"), "hpx", 0, NoUpperEnd,
              {<<"cuda", "False">>, <<"rocm", "False">>})
    \cup Edge(Bound(vs, "sycl", "True"), "hpx", 0, NoUpperEnd, {<<"sycl", "True">>})
    \cup Edge(Bound(vs, "cuda", "True") /\ "cuda_arch" \in DOMAIN vs /\ vs["cuda_arch"] # "none",
              "hpx", 0, NoUpperEnd,
              {<<"cuda", "True">>} \cup
              (IF "cuda_arch" \in DOMAIN vs THEN {<<"cuda_arch", vs["cuda_arch"]>>} ELSE {}))
    \cup Edge(Bound(vs, "rocm", "True") /\ "amdgpu_target" \in DOMAIN vs
                  /\ vs["amdgpu_target"] # "none",
              "hpx", 0, NoUpperEnd,
              {<<"rocm", "True">>} \cup
              (IF "amdgpu_target" \in DOMAIN vs THEN {<<"amdgpu_target", vs["amdgpu_target"]>>} ELSE {}))

HpxKokkosEdges(ver, vs, c) ==
    Edge(InRange(ver, "0.10.0", "") /\ Bound(vs, "kokkos", "True"), "hpx-kokkos", 400, NoUpperEnd, {})
    \cup Edge(InRange(ver, "0.9.0", "0.9.0") /\ Bound(vs, "kokkos", "True"), "hpx-kokkos", 0, 200, {})
    \cup Edge(Bound(vs, "sycl", "True") /\ Bound(vs, "kokkos", "True"), "hpx-kokkos", 0, NoUpperEnd,
              {<<"sycl", "True">>})
    \cup Edge(Bound(vs, "kokkos", "True") /\ Bound(vs, "cuda", "True"), "hpx-kokkos", 0, NoUpperEnd,
              {<<"cuda", "True">>})
    \cup Edge(Bound(vs, "kokkos", "True") /\ Bound(vs, "cuda", "False"), "hpx-kokkos", 0, NoUpperEnd,
              {<<"cuda", "False">>})
    \cup Edge(Bound(vs, "kokkos", "True") /\ Bound(vs, "cuda", "True")
                  /\ "cuda_arch" \in DOMAIN vs /\ vs["cuda_arch"] # "none",
              "hpx-kokkos", 0, NoUpperEnd,
              {<<"cuda", "True">>} \cup
              (IF "cuda_arch" \in DOMAIN vs THEN {<<"cuda_arch", vs["cuda_arch"]>>} ELSE {}))
    \cup Edge(Bound(vs, "kokkos", "True") /\ Bound(vs, "rocm", "True")
                  /\ "amdgpu_target" \in DOMAIN vs /\ vs["amdgpu_target"] # "none",
              "hpx-kokkos", Master, Master,
              {<<"rocm", "True">>} \cup
              (IF "amdgpu_target" \in DOMAIN vs THEN {<<"amdgpu_target", vs["amdgpu_target"]>>} ELSE {}))

CppuddleEdges(ver, vs, c) ==
    Edge(InRange(ver, "0.10.0", ""), "cppuddle", 201, NoUpperEnd, {<<"hpx", "True">>})
    \cup Edge(InRange(ver, "0.9.0", "0.9.0"), "cppuddle", 100, 201, {})

\* The 0.9.0 edge written with the range of the 0.10.0 edge.
KokkosVersionEdges_SameRange(ver, vs) ==
    Edge(InRange(ver, "0.9.0", "0.9.0") /\ Bound(vs, "kokkos", "True"), "kokkos", 30601, NoUpperEnd, {})
    \cup Edge(InRange(ver, "0.10.0", "") /\ Bound(vs, "kokkos", "True"), "kokkos", 30601, NoUpperEnd, {})
    \cup Edge(Bound(vs, "kokkos_hpx_kernels", "True") /\ InRange(ver, "0.10.0", ""),
              "kokkos", 40100, NoUpperEnd, {<<"hpx", "True">>})
    \cup Edge(Bound(vs, "kokkos_hpx_kernels", "True") /\ InRange(ver, "0.9.0", "0.9.0"),
              "kokkos", 0, 30601, {<<"hpx", "True">>, <<"hpx_async_dispatch", "True">>})

\* Pick Kokkos version depending on the octotiger version.
KokkosVersionEdges(ver, vs) ==
    Edge(InRange(ver, "0.9.0", "0.9.0") /\ Bound(vs, "kokkos", "True"), "kokkos", 0, 30601, {})
    \cup Edge(InRange(ver, "0.10.0", "") /\ Bound(vs, "kokkos", "True"), "kokkos", 30601, NoUpperEnd, {})
    \cup Edge(Bound(vs, "kokkos_hpx_kernels", "True") /\ InRange(ver, "0.10.0", ""),
              "kokkos", 40100, NoUpperEnd, {<<"hpx", "True">>})
    \cup Edge(Bound(vs, "kokkos_hpx_kernels", "True") /\ InRange(ver, "0.9.0", "0.9.0"),
              "kokkos", 0, 30601, {<<"hpx", "True">>, <<"hpx_async_dispatch", "True">>})

\* Pick Kokkos execution spaces and GPU targets.
KokkosSpaceEdges(ver, vs, c) ==
    Edge(Bound(vs, "sycl", "True") /\ Bound(vs, "kokkos", "True"), "kokkos", 0, NoUpperEnd,
         {<<"sycl", "True">>})
    \cup Edge(Bound(vs, "kokkos", "True") /\ Bound(vs, "cuda", "False"), "kokkos", 0, NoUpperEnd,
              KokkosBase \cup {<<"cuda", "False">>, <<"cuda_lambda", "False">>, <<"wrapper", "False">>})
    \cup Edge(Bound(vs, "kokkos", "True") /\ Bound(vs, "cuda", "True") /\ IsGcc(c),
              "kokkos", 0, NoUpperEnd, KokkosBase \cup {<<"wrapper", "True">>})
    \cup Edge(Bound(vs, "kokkos", "True") /\ Bound(vs, "cuda", "True")
                  /\ "cuda_arch" \in DOMAIN vs /\ vs["cuda_arch"] # "none",
              "kokkos", 0, NoUpperEnd,
              KokkosBase \cup {<<"cuda", "True">>, <<"cuda_lambda", "True">>} \cup
              (IF "cuda_arch" \in DOMAIN vs THEN {<<"cuda_arch", vs["cuda_arch"]>>} ELSE {}))
    \cup Edge(Bound(vs, "kokkos", "True") /\ Bound(vs, "rocm", "True")
                  /\ "amdgpu_target" \in DOMAIN vs /\ vs["amdgpu_target"] # "none",
              "kokkos", 0, NoUpperEnd,
              KokkosBase \cup {<<"rocm", "True">>} \cup
              (IF "amdgpu_target" \in DOMAIN vs THEN {<<"amdgpu_target", vs["amdgpu_target"]>>} ELSE {}))

KokkosEdges(ver, vs, c) == KokkosVersionEdges(ver, vs) \cup KokkosSpaceEdges(ver, vs, c)

\* Every depends_on edge active for the bound version, variants and compiler.
ActiveEdges(ver, vs, c) ==
    MiscEdges(ver, vs, c) \cup HpxEdges(ver, vs, c) \cup HpxKokkosEdges(ver, vs, c)
    \cup CppuddleEdges(ver, vs, c) \cup KokkosEdges(ver, vs, c)

-----------------------------------------------------------------------------
(* Conflict rules                                                          *)

MsgKokkosNvcc ==
    "Using hpx sender/receiver backend (kokkos@4.1.0:) with nvcc does not work."
        \o "Use clang or downgrade Kokkos, or deactivate +hpx"

MsgGcc12 == "Octotiger release 0.8.0 does not work with gcc@12 - try an older one!"

MsgCudaRocm == "CUDA and ROCm are not compatible in Octo-Tiger."

MsgCudaTooOld == "Octo-Tiger version too old for CUDA."

MsgRocmKokkos == "ROCm support requires building with Kokkos for the correct arch flags."

\* One conflicts(...) declaration: its message when the rule is violated.
Conflict(cond, msg) == IF cond THEN {msg} ELSE {}

\* The rule written with when="~rocm".
CudaRocmConflict_Negated(vs) ==
    Conflict(Bound(vs, "cuda", "True") /\ Bound(vs, "rocm", "False"), MsgCudaRocm)

\* conflicts("+cuda", when="+rocm", msg=...).
CudaRocmConflict(vs) ==
    Conflict(Bound(vs, "cuda", "True") /\ Bound(vs, "rocm", "True"), MsgCudaRocm)

\* The messages of all conflict rules the bound spec violates.  kids is the
\* mapping of the resolved dependencies.
ViolatedConflicts(ver, vs, c, kids) ==
    Conflict(/\ Bound(vs, "kokkos", "True")
             /\ "kokkos" \in DOMAIN kids
             /\ kids["kokkos"].version >= 40100
             /\ <<"cuda", "True">> \in kids["kokkos"].req
             /\ <<"hpx", "True">> \in kids["kokkos"].req
             /\ IsGcc(c),
             MsgKokkosNvcc)
    \cup Conflict(c = "gcc@12" /\ InRange(ver, "0.8.0", "0.8.0"), MsgGcc12)
    \cup Conflict(Bound(vs, "cuda", "True") /\ Bound(vs, "cuda_arch", "none"),
                  "'+cuda' conflicts with 'cuda_arch=none'")
    \cup Conflict(Bound(vs, "rocm", "True") /\ InRange(ver, "0.8.0", "0.8.0"),
                  "'+rocm' conflicts with '@0.8.0'")
    \cup Conflict(Bound(vs, "kokkos_hpx_kernels", "True") /\ Bound(vs, "kokkos", "False"),
                  "'+kokkos_hpx_kernels' conflicts with '~kokkos'")
    \cup Conflict(Bound(vs, "simd_library", "STD") /\ c = "gcc@10",
                  "'simd_library=STD' conflicts with '%gcc@:10'")
    \cup Conflict(Bound(vs, "simd_library", "STD") /\ c = "clang",
                  "'simd_library=STD' conflicts with '%clang'")
    \cup Conflict(Bound(vs, "simd_extension", "SVE") /\ Bound(vs, "simd_library", "STD")
                      /\ Bound(vs, "cxx20", "False"),
                  "'simd_extension=SVE simd_library=STD' conflicts with '~cxx20'")
    \cup CudaRocmConflict(vs)
    \cup Conflict(Bound(vs, "cuda", "True") /\ InRange(ver, "", "0.6.0"), MsgCudaTooOld)
    \cup Conflict(Bound(vs, "rocm", "True") /\ Bound(vs, "kokkos", "False"), MsgRocmKokkos)

-----------------------------------------------------------------------------
(* Resolution                                                              *)

NoMap == [n \in {} |-> "none"]

\* Step 2: bind every variant active at the version to its override or its
\* default.  The variants whose condition reads another variant are bound
\* after the ones they read.
BindVariants(ver, ov) ==
    LET pick(n) == IF n \in DOMAIN ov THEN ov[n] ELSE VariantDefault(n)
        base == [n \in {b \in BaseVariants : VariantActive(b, ver, NoMap)} |-> pick(n)]
    IN  [n \in DOMAIN base \cup
               {d \in VariantNames \ BaseVariants : VariantActive(d, ver, base)} |-> pick(n)]

\* An override is refused when its variant is not active for the request or
\* its value is outside the variant's domain.
UnboundOrRefused(ov, vs) ==
    {n \in DOMAIN ov : n \notin DOMAIN vs \/ ~VariantAccepts(n, ov[n])}

InvalidOverrides(ver, ov) == UnboundOrRefused(ov, BindVariants(ver, ov))

\* Section 4.3: two edges onto one package are compatible when one version
\* range lies within the other and they ask no variant for two values.
RangeWithin(e, f) == f.lo <= e.lo /\ e.hi <= f.hi

Compatible(e, f) ==
    /\ RangeWithin(e, f) \/ RangeWithin(f, e)
    /\ \A p \in e.req, q \in f.req : p[1] = q[1] => p[2] = q[2]

EdgesOnto(edges, pkg) == {e \in edges : e.pkg = pkg}

ClashingPackages(edges) ==
    {e.pkg : e \in {x \in edges : \E y \in edges : y.pkg = x.pkg /\ ~Compatible(x, y)}}

SetMax(S) == CHOOSE x \in S : \A y \in S : y <= x

SetMin(S) == CHOOSE x \in S : \A y \in S : x <= y

\* The narrower constraint of the edges onto pkg, and the version picked for
\* it: the highest known version within the range (0 when there is none).
MergeEdges(edges, pkg) ==
    LET on == EdgesOnto(edges, pkg)
        lo == SetMax({e.lo : e \in on})
        hi == SetMin({e.hi : e \in on})
        ok == {v \in KnownVersions(pkg) : lo <= v /\ v <= hi}
    IN  [lo |-> lo, hi |-> hi, req |-> UNION {e.req : e \in on},
         version |-> IF ok = {} THEN 0 ELSE SetMax(ok)]

ResolveChildren(edges) ==
    [pkg \in {e.pkg : e \in edges} \ ClashingPackages(edges) |-> MergeEdges(edges, pkg)]

\* Steps 3 and 4 for the bound variants vs: the dependencies are merged and
\* the conflict rules evaluated; edge clashes and rule violations are
\* collected rather than reported one at a time.
ResolveEdges(ver, vs, c, edges, kids) ==
    [variants |-> vs, children |-> kids,
     errors |-> (IF ClashingPackages(edges) # {} THEN {"CONFLICTING_EDGES"} ELSE {})
                \cup (IF \E k \in DOMAIN kids : kids[k].version = 0
                      THEN {"VERSION_UNSATISFIABLE"} ELSE {})
                \cup (IF ViolatedConflicts(ver, vs, c, kids) # {}
                      THEN {"CONFLICT_RULE_VIOLATED"} ELSE {}),
     violations |-> ViolatedConflicts(ver, vs, c, kids)]

ResolveBound(ver, vs, c, edges) == ResolveEdges(ver, vs, c, edges, ResolveChildren(edges))

\* Section 4.6: the outcome of resolve(octotiger, ver, ov) with compiler c.
Resolve(ver, ov, c) ==
    IF InvalidOverrides(ver, ov) # {}
    THEN [variants |-> NoMap, children |-> NoMap,
          errors |-> {"INVALID_VARIANT_VALUE"}, violations |-> {}]
    ELSE \* the variants are bound once and the edges read them
         LET vs == BindVariants(ver, ov)
         IN  ResolveBound(ver, vs, c, ActiveEdges(ver, vs, c))

-----------------------------------------------------------------------------
(* cmake_args                                                              *)

\* What define_from_variant returns for a variant the spec does not hold.
EmptyArg == [key |-> "", val |-> ""]

\* self.define(key, value): a boolean becomes ON or OFF.
Define(key, value) ==
    [key |-> key,
     val |-> CASE value = "True" -> "ON" [] value = "False" -> "OFF" [] OTHER -> value]

\* define_from_variant falling back to the variant's default.
DefineFromVariant_Default(vs, key, name) ==
    IF name \notin DOMAIN vs THEN Define(key, VariantDefault(name)) ELSE Define(key, vs[name])

\* self.define_from_variant(key, name): the empty string when the variant
\* is not in spec.variants, otherwise define(key, its value).
DefineFromVariant(vs, key, name) ==
    IF name \notin DOMAIN vs THEN EmptyArg ELSE Define(key, vs[name])

\* An argument written out as '-Dkey=val'.
Flag(key, val) == [key |-> key, val |-> val]

IsNumber(s) == s \in {"1", "2", "4", "8", "16", "32", "64"}

\* int(s) for the strings that are numbers.
ToInt(s) ==
    CASE s = "1" -> 1 [] s = "2" -> 2 [] s = "4" -> 4 [] s = "8" -> 8
      [] s = "16" -> 16 [] s = "32" -> 32 [] s = "64" -> 64

Targets == {"x86_64", "a64fx", "neoverse_v2"}

ErrSimd ==
    "simd_extension != [DISCOVER, SCALAR] requires a newerOcto-Tiger version (>0.9.0)"

ErrMultipole == "multipole_host_tasks > 1 requires +kokkos_hpx_kernels"

ErrMonopole == "monopole_host_tasks > 1 requires +kokkos_hpx_kernels"

ErrHydro == "hydro_host_tasks > 1 requires +kokkos_hpx_kernels"

ErrGriddim ==
    "Octo-Tiger tests only work with griddim=8 and griddim=16. Disable tests or change griddim!"

ErrValue == "ValueError: invalid literal for int()"

PreconditionErrors == {ErrMultipole, ErrMonopole, ErrHydro}

\* CUDA & Kokkos config, HIP config, SYCL config.
GpuArgs(vs, kids) ==
    << DefineFromVariant(vs, "OCTOTIGER_WITH_CUDA", "cuda"),
       DefineFromVariant(vs, "OCTOTIGER_WITH_KOKKOS", "kokkos") >>
    \o (IF Bound(vs, "cuda", "True") /\ vs["cuda_arch"] # "none"
        THEN << Flag("OCTOTIGER_CUDA_ARCH", "sm_" \o vs["cuda_arch"]),
                Flag("CMAKE_CUDA_ARCHITECTURES", vs["cuda_arch"]) >>
        ELSE << >>)
    \o << DefineFromVariant(vs, "OCTOTIGER_WITH_HIP", "rocm") >>
    \o (IF Bound(vs, "rocm", "True")
        THEN << Define("CMAKE_CXX_COMPILER", "hip/bin/hipcc") >> ELSE << >>)
    \o (IF Bound(vs, "sycl", "True") /\ "dpcpp" \in DOMAIN kids
        THEN << Define("CMAKE_CXX_COMPILER", "dpcpp/bin/clang++") >> ELSE << >>)

\* SIMD & CPU kernel config: the exception it raises, or "ok".
SimdError(ver, vs) ==
    IF /\ InRange(ver, "0.9.0", "0.9.0")
       /\ ~Bound(vs, "simd_extension", "DISCOVER")
       /\ ~Bound(vs, "simd_extension", "SCALAR")
    THEN ErrSimd ELSE "ok"

\* The 0.9.0 branch taken for every version from 0.9.0 on.
SimdArgs_OpenRange(ver, vs) ==
    IF InRange(ver, "0.9.0", "")
    THEN IF Bound(vs, "simd_extension", "DISCOVER")
         THEN << Flag("OCTOTIGER_WITH_FORCE_SCALAR_KOKKOS_SIMD", "OFF") >>
         ELSE << Flag("OCTOTIGER_WITH_FORCE_SCALAR_KOKKOS_SIMD", "ON") >>
    ELSE << DefineFromVariant(vs, "OCTOTIGER_KOKKOS_SIMD_LIBRARY", "simd_library"),
            DefineFromVariant(vs, "OCTOTIGER_KOKKOS_SIMD_EXTENSION", "simd_extension") >>

SimdArgs(ver, vs) ==
    IF InRange(ver, "0.9.0", "0.9.0")
    THEN IF Bound(vs, "simd_extension", "DISCOVER")
         THEN << Flag("OCTOTIGER_WITH_FORCE_SCALAR_KOKKOS_SIMD", "OFF") >>
         ELSE << Flag("OCTOTIGER_WITH_FORCE_SCALAR_KOKKOS_SIMD", "ON") >>
    ELSE << DefineFromVariant(vs, "OCTOTIGER_KOKKOS_SIMD_LIBRARY", "simd_library"),
            DefineFromVariant(vs, "OCTOTIGER_KOKKOS_SIMD_EXTENSION", "simd_extension") >>

KernelArgs(vs) ==
    << DefineFromVariant(vs, "OCTOTIGER_WITH_MONOPOLE_HOST_HPX_EXECUTOR", "kokkos_hpx_kernels"),
       DefineFromVariant(vs, "OCTOTIGER_WITH_MULTIPOLE_HOST_HPX_EXECUTOR", "kokkos_hpx_kernels"),
       DefineFromVariant(vs, "OCTOTIGER_WITH_HYDRO_HOST_HPX_EXECUTOR", "kokkos_hpx_kernels"),
       DefineFromVariant(vs, "OCTOTIGER_WITH_KOKKOS_MULTIPOLE_TASKS", "multipole_host_tasks"),
       DefineFromVariant(vs, "OCTOTIGER_WITH_KOKKOS_MONOPOLE_TASKS", "monopole_host_tasks"),
       DefineFromVariant(vs, "OCTOTIGER_WITH_KOKKOS_HYDRO_TASKS", "hydro_host_tasks") >>

\* The check of the host task counts: the first exception raised, or "ok".
TasksOver(vs, name) == IsNumber(vs[name]) /\ ToInt(vs[name]) > 1

HostTasksError(ver, vs) ==
    IF Bound(vs, "kokkos_hpx_kernels", "False") /\ InRange(ver, "0.10.0", "")
    THEN CASE ~IsNumber(vs["multipole_host_tasks"]) -> ErrValue
           [] TasksOver(vs, "multipole_host_tasks") -> ErrMultipole
           [] ~IsNumber(vs["monopole_host_tasks"]) -> ErrValue
           [] TasksOver(vs, "monopole_host_tasks") -> ErrMonopole
           [] ~IsNumber(vs["hydro_host_tasks"]) -> ErrValue
           [] TasksOver(vs, "hydro_host_tasks") -> ErrHydro
           [] OTHER -> "ok"
    ELSE "ok"

\* The a64fx argument written in place of the one before it.
VcArgs_Replaced(tg) ==
    IF tg = "a64fx"
    THEN << Define("OCTOTIGER_WITH_VC", "ON"), Define("OCTOTIGER_WITH_CXX20", "ON") >>
    ELSE << Define("OCTOTIGER_WITH_VC", "ON"), Define("OCTOTIGER_WITH_LEGACY_VC", "OFF") >>

VcArgs(tg) ==
    << Define("OCTOTIGER_WITH_VC", "ON"), Define("OCTOTIGER_WITH_LEGACY_VC", "OFF") >>
    \o (IF tg = "a64fx" THEN << Define("OCTOTIGER_WITH_CXX20", "ON") >> ELSE << >>)

\* Tests.
TestsError(vs, rt) ==
    IF rt /\ ~(Bound(vs, "griddim", "8") \/ Bound(vs, "griddim", "16"))
    THEN ErrGriddim ELSE "ok"

TestsArgs(vs, c, tg, rt) ==
    << Define("OCTOTIGER_WITH_TESTS", IF rt THEN "True" ELSE "False") >>
    \o (IF \/ ~rt
           \/ c = "arm" \/ c = "clang" \/ tg = "neoverse_v2"
           \/ Bound(vs, "rocm", "True") \/ Bound(vs, "sycl", "True") \/ tg = "a64fx"
        THEN << Define("OCTOTIGER_WITH_BLAST_TEST", "OFF") >>
        ELSE << Define("OCTOTIGER_WITH_BLAST_TEST", "ON") >>)

\* Compute config.
ComputeError(vs) == IF IsNumber(vs["griddim"]) THEN "ok" ELSE ErrValue

ComputeArgs(vs) ==
    << DefineFromVariant(vs, "OCTOTIGER_WITH_FAST_FP_CONTRACT", "fast_fp_contract"),
       Flag("OCTOTIGER_WITH_GRIDDIM", vs["griddim"]),
       Flag("OCTOTIGER_THETA_MINIMUM", vs["theta_minimum"]),
       Define("OCTOTIGER_WITH_MAX_NUMBER_FIELDS", "15"),
       IF ToInt(vs["griddim"]) > 20
       THEN Flag("OCTOTIGER_DISABLE_ILIST", "ON")
       ELSE Flag("OCTOTIGER_DISABLE_ILIST", "OFF"),
       Define("OCTOTIGER_ARCH_FLAG", "-march=native ") >>

\* Misc.
MiscArgs(vs) ==
    << Define("OCTOTIGER_WITH_UNBUFFERED_STDOUT", "OFF"),
       Define("CMAKE_EXPORT_COMPILE_COMMANDS", "ON"),
       DefineFromVariant(vs, "OCTOTIGER_WITH_BOOST_MULTIPRECISION", "boost_multiprecision"),
       DefineFromVariant(vs, "OCTOTIGER_WITH_CXX20", "cxx20") >>

\* The first exception cmake_args raises, in the order of its statements.
FirstError(errs) ==
    IF \A i \in 1..Len(errs) : errs[i] = "ok" THEN "ok"
    ELSE errs[CHOOSE i \in 1..Len(errs) :
                  errs[i] # "ok" /\ \A j \in 1..(i - 1) : errs[j] = "ok"]

\* cmake_args on the spec (version, variants, compiler, dependencies, target)
\* with self.run_tests = rt: the list returned, or the exception raised.
cmake_args(ver, vs, c, kids, tg, rt) ==
    LET err == FirstError(<< SimdError(ver, vs), HostTasksError(ver, vs),
                             TestsError(vs, rt), ComputeError(vs) >>)
    IN  IF err # "ok"
        THEN [outcome |-> err, args |-> << >>]
        ELSE [outcome |-> "ok",
              args |-> GpuArgs(vs, kids) \o SimdArgs(ver, vs) \o KernelArgs(vs)
                       \o VcArgs(tg) \o TestsArgs(vs, c, tg, rt)
                       \o ComputeArgs(vs) \o MiscArgs(vs)]

-----------------------------------------------------------------------------
(* The request, its resolution and the calls of cmake_args                 *)

DefaultCompiler == "gcc@11"

DefaultTarget == "x86_64"

\* The values a request overrides a variant with.
OverrideInputs(name) ==
    CASE name = "griddim" -> {"16", "32", "x"}
      [] name = "theta_minimum" -> {"0.5", "0.16", "0.1"}
      [] name = "monopole_host_tasks" -> {"4", "64"}
      [] name = "multipole_host_tasks" -> {"4", "64", "2"}
      [] name = "hydro_host_tasks" -> {"4", "2"}
      [] name = "simd_library" -> {"STD"}
      [] name = "simd_extension" -> {"SCALAR", "AVX512", "SVE"}
      [] name = "cuda_arch" -> {"70"}
      [] name = "amdgpu_target" -> {"gfx90a"}
      [] OTHER -> {"True"}

Choices ==
    Cardinality(DOMAIN overrides \ InheritedVariants)
    + (IF compiler # DefaultCompiler THEN 1 ELSE 0)
    + (IF target # DefaultTarget THEN 1 ELSE 0)
    + (IF run_tests THEN 1 ELSE 0)

Init ==
    /\ pc = "request"
    /\ version = PreferredVersion
    /\ overrides = NoMap
    /\ compiler = DefaultCompiler
    /\ target = DefaultTarget
    /\ run_tests = FALSE
    /\ variants = NoMap
    /\ children = NoMap
    /\ errors = {}
    /\ violations = {}
    /\ outcome = "none"
    /\ args = << >>
    /\ prevOutcome = "none"
    /\ prevArgs = << >>

SetVersion(v) ==
    /\ pc = "request"
    /\ version = PreferredVersion
    /\ v # PreferredVersion
    /\ version' = v
    /\ UNCHANGED <<pc, overrides, compiler, target, run_tests, variants, children,
                   errors, violations, outcome, args, prevOutcome, prevArgs>>

SetOverride(n, val) ==
    /\ pc = "request"
    /\ n \notin DOMAIN overrides
    /\ n \in InheritedVariants \/ Choices < MaxChoices
    /\ overrides' = [m \in DOMAIN overrides \cup {n} |->
                        IF m = n THEN val ELSE overrides[m]]
    /\ UNCHANGED <<pc, version, compiler, target, run_tests, variants, children,
                   errors, violations, outcome, args, prevOutcome, prevArgs>>

SetCompiler(c) ==
    /\ pc = "request"
    /\ compiler = DefaultCompiler
    /\ c # DefaultCompiler
    /\ Choices < MaxChoices
    /\ compiler' = c
    /\ UNCHANGED <<pc, version, overrides, target, run_tests, variants, children,
                   errors, violations, outcome, args, prevOutcome, prevArgs>>

SetTarget(t) ==
    /\ pc = "request"
    /\ target = DefaultTarget
    /\ t # DefaultTarget
    /\ Choices < MaxChoices
    /\ target' = t
    /\ UNCHANGED <<pc, version, overrides, compiler, run_tests, variants, children,
                   errors, violations, outcome, args, prevOutcome, prevArgs>>

EnableTests ==
    /\ pc = "request"
    /\ ~run_tests
    /\ Choices < MaxChoices
    /\ run_tests' = TRUE
    /\ UNCHANGED <<pc, version, overrides, compiler, target, variants, children,
                   errors, violations, outcome, args, prevOutcome, prevArgs>>

DoResolve ==
    /\ pc = "request"
    /\ \E r \in {Resolve(version, overrides, compiler)} :
           /\ variants' = r.variants
           /\ children' = r.children
           /\ errors' = r.errors
           /\ violations' = r.violations
           /\ pc' = IF r.errors = {} THEN "resolved" ELSE "failed"
    /\ UNCHANGED <<version, overrides, compiler, target, run_tests,
                   outcome, args, prevOutcome, prevArgs>>

Emit ==
    /\ pc = "resolved"
    /\ \E r \in {cmake_args(version, variants, compiler, children, target, run_tests)} :
           /\ outcome' = r.outcome
           /\ args' = r.args
    /\ pc' = "emitted"
    /\ UNCHANGED <<version, overrides, compiler, target, run_tests, variants,
                   children, errors, violations, prevOutcome, prevArgs>>

\* cmake_args called again on the same resolved spec.
Reemit(tg, rt) ==
    /\ pc = "emitted"
    /\ \E r \in {cmake_args(version, variants, compiler, children, tg, rt)} :
           /\ outcome' = r.outcome
           /\ args' = r.args
    /\ prevOutcome' = outcome
    /\ prevArgs' = args
    /\ target' = tg
    /\ run_tests' = rt
    /\ pc' = "reemitted"
    /\ UNCHANGED <<version, overrides, compiler, variants, children, errors, violations>>

Next ==
    \/ \E v \in Versions : SetVersion(v)
    \/ \E n \in VariantNames : \E val \in OverrideInputs(n) : SetOverride(n, val)
    \/ \E c \in Compilers : SetCompiler(c)
    \/ \E t \in Targets : SetTarget(t)
    \/ EnableTests
    \/ DoResolve
    \/ Emit
    \/ \E t \in Targets : \E rt \in BOOLEAN : Reemit(t, rt)

Spec == Init /\ [][Next]_vars

-----------------------------------------------------------------------------
(* Properties                                                              *)

Resolved == pc \in {"resolved", "emitted", "reemitted"}

Emitted == pc \in {"emitted", "reemitted"}

Returned == Emitted /\ outcome = "ok"

ArgSet == {args[i] : i \in 1..Len(args)}

KeyCount(key) == Cardinality({i \in 1..Len(args) : args[i].key = key})

\* C1, as claimed: whenever cuda and rocm are both bound to true, resolution
\* fails with a conflict-rule violation whose message is exactly
\* 'CUDA and ROCm are not compatible'.
C1_MessageAsClaimed ==
    (Bound(variants, "cuda", "True") /\ Bound(variants, "rocm", "True"))
        => /\ pc = "failed"
           /\ "CONFLICT_RULE_VIOLATED" \in errors
           /\ "CUDA and ROCm are not compatible" \in violations

\* C1, amended: whenever cuda and rocm are both bound to true, no resolved
\* spec is returned: resolution fails with a conflict-rule violation that
\* carries the message 'CUDA and ROCm are not compatible in Octo-Tiger.'.
C1_CudaRocmConflict ==
    (Bound(variants, "cuda", "True") /\ Bound(variants, "rocm", "True"))
        => /\ pc = "failed"
           /\ "CONFLICT_RULE_VIOLATED" \in errors
           /\ "CUDA and ROCm are not compatible in Octo-Tiger." \in violations

C1_Witness ==
    /\ pc = "failed"
    /\ Bound(overrides, "cuda", "True") /\ Bound(overrides, "rocm", "True")
    /\ Bound(variants, "cuda", "True") /\ Bound(variants, "rocm", "True")
    /\ violations # {}

\* The variants whose activation condition is false for the resolved spec.
InactiveVariants == {n \in OwnVariants : ~VariantActive(n, version, variants)}

\* Whether argument d is one cmake_args writes for variant n.
ArgOfVariant(n, d) ==
    CASE n = "sycl" -> d = [key |-> "CMAKE_CXX_COMPILER", val |-> "dpcpp/bin/clang++"]
      [] n = "cuda" -> d.key \in {"OCTOTIGER_WITH_CUDA", "OCTOTIGER_CUDA_ARCH",
                                  "CMAKE_CUDA_ARCHITECTURES"}
      [] n = "rocm" -> \/ d.key = "OCTOTIGER_WITH_HIP"
                       \/ d = [key |-> "CMAKE_CXX_COMPILER", val |-> "hip/bin/hipcc"]
      [] n = "kokkos" -> d.key = "OCTOTIGER_WITH_KOKKOS"
      [] n = "kokkos_hpx_kernels" ->
            d.key \in {"OCTOTIGER_WITH_MONOPOLE_HOST_HPX_EXECUTOR",
                       "OCTOTIGER_WITH_MULTIPOLE_HOST_HPX_EXECUTOR",
                       "OCTOTIGER_WITH_HYDRO_HOST_HPX_EXECUTOR"}
      [] n = "monopole_host_tasks" -> d.key = "OCTOTIGER_WITH_KOKKOS_MONOPOLE_TASKS"
      [] n = "multipole_host_tasks" -> d.key = "OCTOTIGER_WITH_KOKKOS_MULTIPOLE_TASKS"
      [] n = "hydro_host_tasks" -> d.key = "OCTOTIGER_WITH_KOKKOS_HYDRO_TASKS"
      [] n = "simd_library" -> d.key = "OCTOTIGER_KOKKOS_SIMD_LIBRARY"
      [] n = "simd_extension" -> d.key \in {"OCTOTIGER_KOKKOS_SIMD_EXTENSION",
                                            "OCTOTIGER_WITH_FORCE_SCALAR_KOKKOS_SIMD"}
      [] n = "fast_fp_contract" -> d.key = "OCTOTIGER_WITH_FAST_FP_CONTRACT"
      [] n = "griddim" -> d.key = "OCTOTIGER_WITH_GRIDDIM"
      [] n = "theta_minimum" -> d.key = "OCTOTIGER_THETA_MINIMUM"
      [] n = "boost_multiprecision" -> d.key = "OCTOTIGER_WITH_BOOST_MULTIPRECISION"
      [] n = "cxx20" -> d.key = "OCTOTIGER_WITH_CXX20"

\* C2, as claimed: a variant whose activation condition is false is absent
\* from the resolved variant mapping, and the list cmake_args returns holds
\* no argument for it, not even an empty one.
C2_NoArgumentAtAll ==
    (Returned /\ InactiveVariants # {})
        => /\ \A n \in InactiveVariants : n \notin DOMAIN variants
           /\ \A d \in ArgSet :
                  /\ d.key # ""
                  /\ \A n \in InactiveVariants : ~ArgOfVariant(n, d)

\* C2, amended: a variant whose activation condition is false is absent from
\* the resolved variant mapping and no argument of the returned list carries
\* a flag of it; the list holds empty strings exactly when some variant is
\* inactive.
C2_InactiveVariantAbsent ==
    Returned
        => /\ \A n \in InactiveVariants :
                  /\ n \notin DOMAIN variants
                  /\ \A d \in ArgSet : ~ArgOfVariant(n, d)
           /\ ([key |-> "", val |-> ""] \in ArgSet) <=> (InactiveVariants # {})

C2_Witness ==
    /\ pc = "emitted" /\ outcome = "ok"
    /\ version = "0.8.0"
    /\ {"sycl", "rocm", "kokkos", "kokkos_hpx_kernels", "simd_library",
        "monopole_host_tasks"} \subseteq InactiveVariants
    /\ "cuda" \in DOMAIN variants

TaskCount(n) ==
    IF n \in DOMAIN variants /\ IsNumber(variants[n]) THEN ToInt(variants[n]) ELSE 0

\* C3: at version 0.10.0 or later, when kokkos_hpx_kernels is not selected as
\* true (false, or inactive because kokkos is off) and one of the host task
\* counts is greater than 1, cmake_args fails with the error of the host
\* task check and returns no argument.
C3_HostTasksNeedHpxKernels ==
    (/\ Emitted
     /\ InRange(version, "0.10.0", "")
     /\ ~Bound(variants, "kokkos_hpx_kernels", "True")
     /\ \E n \in {"multipole_host_tasks", "monopole_host_tasks", "hydro_host_tasks"} :
            TaskCount(n) > 1)
        => /\ outcome \in {"multipole_host_tasks > 1 requires +kokkos_hpx_kernels",
                           "monopole_host_tasks > 1 requires +kokkos_hpx_kernels",
                           "hydro_host_tasks > 1 requires +kokkos_hpx_kernels"}
           /\ args = << >>

AcceptedKokkos ==
    IF "kokkos" \in DOMAIN children
    THEN {v \in KnownVersions("kokkos") :
              children["kokkos"].lo <= v /\ v <= children["kokkos"].hi}
    ELSE {}

\* C5, as claimed: with kokkos=true, at octotiger 0.9.0 every accepted kokkos
\* version is below 3.6.01, and from 0.10.0 on every accepted version, and
\* the one selected, is 3.6.01 or above.
C5_KokkosBelowAsClaimed ==
    (pc # "request" /\ Bound(variants, "kokkos", "True") /\ "kokkos" \in DOMAIN children)
        => /\ version = "0.9.0" => \A v \in AcceptedKokkos : v < 30601
           /\ version \in {"0.10.0", "master", "develop"}
                  => /\ \A v \in AcceptedKokkos : v >= 30601
                     /\ children["kokkos"].version >= 30601

\* C5, amended: with kokkos=true, at octotiger 0.9.0 every accepted kokkos
\* version is 3.6.01 or below (3.6.01 itself is accepted), and from 0.10.0
\* on every accepted version, and the one selected, is 3.6.01 or above.
C5_KokkosNarrowedByVersion ==
    (pc # "request" /\ Bound(variants, "kokkos", "True"))
        => /\ "kokkos" \in DOMAIN children
           /\ AcceptedKokkos # {}
           /\ version = "0.9.0"
                  => /\ \A v \in AcceptedKokkos : v <= 30601
                     /\ 30601 \in AcceptedKokkos
           /\ version \in {"0.10.0", "master", "develop"}
                  => /\ \A v \in AcceptedKokkos : v >= 30601
                     /\ children["kokkos"].version >= 30601

C5_Witness ==
    /\ pc = "resolved"
    /\ version = "0.9.0"
    /\ Bound(variants, "kokkos", "True")
    /\ children["kokkos"].version = 30601

\* C6, as claimed: two calls of cmake_args on the same resolved spec give the
\* same list or the same error, whatever run_tests and the target are.
C6_SameOutputAsClaimed ==
    pc = "reemitted" => (outcome = prevOutcome /\ args = prevArgs)

\* The arguments that depend on run_tests or on the target.
DependsOnCall(d) ==
    \/ d.key \in {"OCTOTIGER_WITH_TESTS", "OCTOTIGER_WITH_BLAST_TEST"}
    \/ d = [key |-> "OCTOTIGER_WITH_CXX20", val |-> "ON"]

IndependentOfCall(d) == ~DependsOnCall(d)

\* C6, amended: two calls of cmake_args on the same resolved spec that both
\* return give lists that agree on every argument other than
\* OCTOTIGER_WITH_TESTS, OCTOTIGER_WITH_BLAST_TEST and
\* OCTOTIGER_WITH_CXX20=ON, and their outcomes differ only when one of the
\* calls raises the error of the griddim check for the tests.
C6_SameOutputUpToTestsAndTarget ==
    pc = "reemitted"
        => /\ (outcome = "ok" /\ prevOutcome = "ok")
                  => SelectSeq(args, IndependentOfCall) = SelectSeq(prevArgs, IndependentOfCall)
           /\ outcome # prevOutcome
                  => "Octo-Tiger tests only work with griddim=8 and griddim=16. Disable tests or change griddim!"
                         \in {outcome, prevOutcome}

C6_Witness ==
    /\ pc = "reemitted"
    /\ outcome = "ok" /\ prevOutcome = "ok"
    /\ args # prevArgs
    /\ Len(args) # Len(prevArgs)

\* The values the recipe names for a numeric variant: its declared values,
\* or, for a variant that declares none, its default and (for griddim) the
\* values the tests support.
NamedValues(n) ==
    CASE n = "theta_minimum" -> {"0.5", "0.34", "0.26", "0.16"}
      [] n = "monopole_host_tasks" -> {"1", "4", "16"}
      [] n = "multipole_host_tasks" -> {"1", "4", "16", "64"}
      [] n = "hydro_host_tasks" -> {"1"}
      [] n = "griddim" -> {"8", "16"}

NumericVariants ==
    {"griddim", "theta_minimum", "monopole_host_tasks", "multipole_host_tasks",
     "hydro_host_tasks"}

ValueOfKey(key) == {d.val : d \in {x \in ArgSet : x.key = key}}

C8_SimdByVersion ==
    Emitted =>
        IF version = "0.9.0"
        THEN /\ ~(Bound(variants, "simd_extension", "DISCOVER")
                  \/ Bound(variants, "simd_extension", "SCALAR"))
                    => (outcome # "ok" /\ args = << >>)
             /\ outcome = "ok"
                    => /\ KeyCount("OCTOTIGER_WITH_FORCE_SCALAR_KOKKOS_SIMD") = 1
                       /\ Bound(variants, "simd_extension", "DISCOVER")
                              => ValueOfKey("OCTOTIGER_WITH_FORCE_SCALAR_KOKKOS_SIMD") = {"OFF"}
                       /\ Bound(variants, "simd_extension", "SCALAR")
                              => ValueOfKey("OCTOTIGER_WITH_FORCE_SCALAR_KOKKOS_SIMD") = {"ON"}
                       /\ KeyCount("OCTOTIGER_KOKKOS_SIMD_LIBRARY") = 0
                       /\ KeyCount("OCTOTIGER_KOKKOS_SIMD_EXTENSION") = 0
        ELSE outcome = "ok"
                 => /\ KeyCount("OCTOTIGER_WITH_FORCE_SCALAR_KOKKOS_SIMD") = 0
                    /\ ValueOfKey("OCTOTIGER_KOKKOS_SIMD_LIBRARY") =
                           (IF "simd_library" \in DOMAIN variants
                            THEN {variants["simd_library"]} ELSE {})
                    /\ ValueOfKey("OCTOTIGER_KOKKOS_SIMD_EXTENSION") =
                           (IF "simd_extension" \in DOMAIN variants
                            THEN {variants["simd_extension"]} ELSE {})

C8_Witness ==
    /\ pc = "emitted" /\ outcome = "ok"
    /\ version = "0.9.0"
    /\ Bound(variants, "simd_extension", "SCALAR")
    /\ [key |-> "OCTOTIGER_WITH_FORCE_SCALAR_KOKKOS_SIMD", val |-> "ON"] \in ArgSet

\* C9: whenever the bound variants violate no conflict rule, the edges active
\* onto one package are compatible, so resolution reports no conflicting
\* edges; with kokkos, rocm and an amdgpu_target, hpx-kokkos resolves to
\* version master.
C9_EdgesCompatible ==
    (pc # "request" /\ DOMAIN variants # {} /\ violations = {})
        => /\ "CONFLICTING_EDGES" \notin errors
           /\ (/\ Bound(variants, "kokkos", "True")
               /\ Bound(variants, "rocm", "True")
               /\ ~Bound(variants, "amdgpu_target", "none"))
                  => /\ "hpx-kokkos" \in DOMAIN children
                     /\ children["hpx-kokkos"].version = 999999

\* C10: no flag key appears more than once in a list cmake_args returns.
C10_NoKeyTwice ==
    Returned
        => \A i, j \in 1..Len(args) :
               (i # j /\ args[i].key # "") => args[i].key # args[j].key

=============================================================================
